---------------------------- MODULE Spec2Model ----------------------------
(***************************************************************************)
(* Model of main.py: the monthly due / cash-flow report.                   *)
(*                                                                         *)
(* Dates are records [year, month, day].  Money is a record [k, v]: k is   *)
(* the Python type of the value ("int", "Decimal" or "float") and v its    *)
(* exact value counted in units of 1/Den of the input unit (the input unit *)
(* is a tenth of a cent).  Den = 2*2*3 makes every quotient the program    *)
(* forms (/2, /2/2, /2 then /3) an integer number of units.                *)
(***************************************************************************)
EXTENDS Integers, Sequences, FiniteSets, TLC

VARIABLES
    argv,               \* sys.argv[1] as <<mm, yy>>
    fixed_expenses,     \* list of FixedExpense
    variable_expenses,  \* list of VariableExpense
    accounts,           \* list of Account
    pc,                 \* position in main(); where it stopped, once err is set
    err,                \* the exception that ended main(), or "none"
    i,                  \* index of the running for loop (1-based)
    due_mo, prev_mo,
    split_due, solo_due,
    split_in, split_out, solo_in, solo_out,
    est_out, net_due, net_in_out,
    out,                \* what has been printed
    call, ret           \* a direct call of a temporal utility and its result

vars == <<argv, fixed_expenses, variable_expenses, accounts, pc, err, i,
          due_mo, prev_mo, split_due, solo_due, split_in, split_out,
          solo_in, solo_out, est_out, net_due, net_in_out, out, call, ret>>

locals == <<due_mo, prev_mo, split_due, solo_due, split_in, split_out,
            solo_in, solo_out, est_out, net_due, net_in_out>>

inputs == <<argv, fixed_expenses, variable_expenses, accounts>>

-----------------------------------------------------------------------------
(* Bounds of the model.                                                    *)

\* files and profile entries loaded (fixed + variable expenses + accounts)
MaxEntities == 2
\* transactions loaded, over all files
MaxTxns == 2
\* largest n of a direct call of minus_months / in_past_months
MaxMonths == 14

-----------------------------------------------------------------------------
(* datetime.date, as far as main.py uses it.                               *)

IsLeap(y) == (y % 4 = 0 /\ y % 100 # 0) \/ y % 400 = 0

DaysInMonth(y, m) ==
    IF m = 2 THEN (IF IsLeap(y) THEN 29 ELSE 28)
    ELSE IF m \in {4, 6, 9, 11} THEN 30
    ELSE 31

Date(y, m, d) == [year |-> y, month |-> m, day |-> d]

\* d.replace(day=1)
ReplaceDay1(d) == [d EXCEPT !.day = 1]

\* d - timedelta(days=1)
MinusOneDay(d) ==
    IF d.day > 1 THEN [d EXCEPT !.day = d.day - 1]
    ELSE IF d.month > 1
         THEN Date(d.year, d.month - 1, DaysInMonth(d.year, d.month - 1))
         ELSE Date(d.year - 1, 12, 31)

\* datetime.strptime(arg, '%m/%y'): a two-digit year below 69 is 20yy
Strptime(arg) ==
    Date(IF arg[2] < 69 THEN 2000 + arg[2] ELSE 1900 + arg[2], arg[1], 1)

in_same_month(a, b) == a.year = b.year /\ a.month = b.month

RECURSIVE minus_months_loop(_, _)
minus_months_loop(d, n) ==
    IF n = 0 THEN d
    ELSE minus_months_loop(MinusOneDay(ReplaceDay1(d)), n - 1)

\* variant: an if in place of the for loop, one step back at most
minus_months_once(d, n) == IF n = 0 THEN d ELSE MinusOneDay(ReplaceDay1(d))

\* variant: steps back one day per iteration, without replace(day=1)
RECURSIVE minus_months_days(_, _)
minus_months_days(d, n) ==
    IF n = 0 THEN d ELSE minus_months_days(MinusOneDay(d), n - 1)

minus_months(d, n) == minus_months_loop(d, n)

RECURSIVE in_past_months_loop(_, _, _)
in_past_months_loop(to_check, n, d) ==
    IF n = 0 THEN FALSE
    ELSE LET t == ReplaceDay1(MinusOneDay(to_check))
         IN  IF in_same_month(d, t) THEN TRUE
             ELSE in_past_months_loop(t, n - 1, d)

\* variant: tests the month before stepping back, so the window is
\* start's own month and the n-1 before it
RECURSIVE in_past_months_late(_, _, _)
in_past_months_late(to_check, n, d) ==
    IF n = 0 THEN FALSE
    ELSE IF in_same_month(d, to_check) THEN TRUE
         ELSE in_past_months_late(ReplaceDay1(MinusOneDay(to_check)), n - 1, d)

in_past_months_own(start, n, d) == in_past_months_late(ReplaceDay1(start), n, d)

in_past_months(start, n, d) == in_past_months_loop(ReplaceDay1(start), n, d)

-----------------------------------------------------------------------------
(* Python numbers, as far as main.py uses them.                            *)

Den == 2 * 2 * 3

\* units in one cent: the input unit is a tenth of a cent
CentUnits == 10 * Den

\* the literal 0, and sum([])
Int0 == [k |-> "int", v |-> 0]

\* a name not assigned yet
Unset == [k |-> "unset", v |-> 0]

\* Decimal(row[..]) of a field that reads a units of a tenth of a cent
Decimal(a) == [k |-> "Decimal", v |-> Den * a]

\* the value of an expression that raised TypeError
Raised == [k |-> "TypeError", v |-> 0]

IsErr(x) == x.k = "TypeError"

\* a + b: Decimal and float do not mix; int joins either
Add(a, b) ==
    IF IsErr(a) \/ IsErr(b) THEN Raised
    ELSE IF {a.k, b.k} = {"Decimal", "float"} THEN Raised
    ELSE [k |-> IF "float" \in {a.k, b.k} THEN "float"
                ELSE IF "Decimal" \in {a.k, b.k} THEN "Decimal"
                ELSE "int",
          v |-> a.v + b.v]

\* a / n for an int literal n: true division, int / int is a float
TrueDiv(a, n) ==
    IF IsErr(a) THEN Raised
    ELSE [k |-> IF a.k = "int" THEN "float" ELSE a.k, v |-> a.v \div n]

\* -a
Neg(a) == IF IsErr(a) THEN Raised ELSE [a EXCEPT !.v = 0 - a.v]

RECURSIVE SumFrom(_, _)
SumFrom(acc, s) ==
    IF s = <<>> THEN acc ELSE SumFrom(Add(acc, Head(s)), Tail(s))

\* sum(list): starts from the int 0
PySum(s) == SumFrom(Int0, s)

\* variant: floor instead of ceiling
round_money_floor(amount) == amount.v \div CentUnits

\* math.ceil(amount * 100) / 100, as a count of whole cents
round_money(amount) == 0 - ((0 - amount.v) \div CentUnits)

-----------------------------------------------------------------------------
(* The loaded inputs: what the constructors of lines 112-122 leave.        *)

\* sys.argv[1]: 01/24, 03/24
DueArgs == {<<1, 24>>, <<3, 24>>}

\* posted dates of account rows: under either due-month one, or three, of
\* them are in the three months before it and the others are not
PostedDates ==
    {Date(2023, 11, 15), Date(2023, 12, 31), Date(2024, 1, 1), Date(2024, 2, 29)}

\* the last days of the months before the two due-months
PrevDates == {Date(2023, 12, 31), Date(2024, 2, 29)}

\* amounts of fixed expenses, in tenths of a cent
FixedAmounts == {100}

Transaction(posted, amount) == [posted |-> posted, amount |-> Decimal(amount)]

\* account rows: an outflow on any of the dates, an inflow or a zero row
\* at the end of a previous month
AccountTxns ==
    {Transaction(d, 0 - 35) : d \in PostedDates}
        \cup {Transaction(d, 50) : d \in PrevDates}
        \cup {Transaction(Date(2023, 12, 31), 0)}

\* variable-expense rows: statements of 200 or 90 at the end of a previous
\* month, and one of 200 in February of the year before
VariableTxns ==
    {Transaction(d, a) : d \in PrevDates, a \in {90, 200}}
        \cup {Transaction(Date(2023, 2, 28), 200)}

FixedExpense == {[split |-> s, amount |-> Decimal(a)] : s \in BOOLEAN, a \in FixedAmounts}

\* the ways of giving n files at most t rows in all
RECURSIVE Shapes(_, _)
Shapes(n, t) ==
    IF n = 0 THEN {<<>>}
    ELSE UNION {{<<c>> \o r : r \in Shapes(n - 1, t - c)} : c \in 0..t}

\* the lists of Account / VariableExpense with the given numbers of rows
RECURSIVE Loaded(_, _)
Loaded(shape, txns) ==
    IF shape = <<>> THEN {<<>>}
    ELSE {<<[split |-> s, txns |-> t]>> \o r :
            s \in BOOLEAN, t \in [1..Head(shape) -> txns],
            r \in Loaded(Tail(shape), txns)}

-----------------------------------------------------------------------------
(* main(), lines 111-184.                                                  *)

MapAmount(txns) == [j \in 1..Len(txns) |-> txns[j].amount]

\* variant: matches the month by its number alone
PrevMonthTxnsAnyYear(txns, prev) ==
    LET Match(txn) == txn.posted.month = prev.month
    IN  SelectSeq(txns, Match)

\* [txn for txn in txns if in_same_month(txn.posted, prev_mo)]
PrevMonthTxns(txns, prev) ==
    LET Match(txn) == in_same_month(txn.posted, prev)
    IN  SelectSeq(txns, Match)

\* variant: the first matching row instead of the last
VariableAmountFirst(amounts) == TrueDiv(amounts[1], 2)

\* line 136: [...][-1] / 2, for a non-empty list
VariableAmount(amounts) == TrueDiv(amounts[Len(amounts)], 2)

\* variant: a split fixed expense counted in full
FixedSplitFull(expense) == expense.amount

\* line 131: expense.amount / 2
FixedSplit(expense) == TrueDiv(expense.amount, 2)

\* lines 148-150
AmountIn(account, prev) ==
    LET Pos(txn) == txn.amount.v > 0 /\ in_same_month(txn.posted, prev)
    IN  PySum(MapAmount(SelectSeq(account.txns, Pos)))

\* lines 151-153
AmountOut(account, prev) ==
    LET Neg0(txn) == txn.amount.v < 0 /\ in_same_month(txn.posted, prev)
    IN  PySum(MapAmount(SelectSeq(account.txns, Neg0)))

\* the four accumulators of lines 142-145
Flow0 == [split_in |-> Int0, split_out |-> Int0,
          solo_in |-> Int0, solo_out |-> Int0, err |-> "none"]

\* one iteration of the loop of lines 147-159; an assignment whose right
\* side raises is not made, and ends the loop
FlowStep(f, account, prev) ==
    IF account.split
    THEN LET si == Add(f.split_in, TrueDiv(AmountIn(account, prev), 2))
             so == Add(f.split_out, TrueDiv(AmountOut(account, prev), 2))
         IN  IF IsErr(si) THEN [f EXCEPT !.err = "TypeError"]
             ELSE IF IsErr(so)
                  THEN [f EXCEPT !.split_in = si, !.err = "TypeError"]
                  ELSE [f EXCEPT !.split_in = si, !.split_out = so]
    ELSE LET si == Add(f.solo_in, AmountIn(account, prev))
             so == Add(f.solo_out, AmountOut(account, prev))
         IN  IF IsErr(si) THEN [f EXCEPT !.err = "TypeError"]
             ELSE IF IsErr(so)
                  THEN [f EXCEPT !.solo_in = si, !.err = "TypeError"]
                  ELSE [f EXCEPT !.solo_in = si, !.solo_out = so]

\* the whole loop of lines 142-159 for a reference month
RECURSIVE FlowLoop(_, _, _)
FlowLoop(f, accts, prev) ==
    IF accts = <<>> \/ f.err # "none" THEN f
    ELSE FlowLoop(FlowStep(f, Head(accts), prev), Tail(accts), prev)

\* line 167
NetInOut(f) == Add(Add(Add(f.split_in, f.split_out), f.solo_in), f.solo_out)

\* the inner sum of lines 161-163 for one account
WindowSum(account, due) ==
    LET In(txn) == in_past_months(due, 3, txn.posted)
        w == SelectSeq(account.txns, In)
    IN  PySum([j \in 1..Len(w) |->
                 IF account.split THEN TrueDiv(w[j].amount, 2) ELSE w[j].amount])

\* lines 161-164
EstOut(accts, due) ==
    TrueDiv(Neg(PySum([j \in 1..Len(accts) |-> WindowSum(accts[j], due)])), 3)

Figure(name, amount) == [name |-> name, cents |-> round_money(amount)]

Heading(name, d) == [name |-> name, year |-> d.year, month |-> d.month]

NotCalled == [op |-> "none"]

NoResult == [done |-> FALSE]

Init ==
    /\ argv \in DueArgs
    /\ \E f \in 0..MaxEntities, v \in 0..MaxEntities, a \in 0..MaxEntities :
         /\ f + v + a <= MaxEntities
         /\ \E shape \in Shapes(v + a, MaxTxns) :
              /\ fixed_expenses \in [1..f -> FixedExpense]
              /\ variable_expenses \in Loaded(SubSeq(shape, 1, v), VariableTxns)
              /\ accounts \in Loaded(SubSeq(shape, v + 1, v + a), AccountTxns)
    /\ pc = "parse"
    /\ err = "none"
    /\ i = 0
    /\ due_mo = Unset /\ prev_mo = Unset
    /\ split_due = Unset /\ solo_due = Unset
    /\ split_in = Unset /\ split_out = Unset
    /\ solo_in = Unset /\ solo_out = Unset
    /\ est_out = Unset /\ net_due = Unset /\ net_in_out = Unset
    /\ out = <<>>
    /\ call = NotCalled /\ ret = NoResult

\* lines 124-127
ParseDue ==
    /\ pc = "parse" /\ err = "none"
    /\ due_mo' = Strptime(argv)
    /\ prev_mo' = minus_months(Strptime(argv), 1)
    /\ split_due' = Int0 /\ solo_due' = Int0
    /\ pc' = "fixed" /\ i' = 1
    /\ UNCHANGED <<inputs, err, split_in, split_out, solo_in, solo_out,
                   est_out, net_due, net_in_out, out, call, ret>>

\* lines 129-133, one iteration
FixedStep ==
    /\ pc = "fixed" /\ err = "none" /\ i <= Len(fixed_expenses)
    /\ LET expense == fixed_expenses[i]
       IN  IF expense.split
           THEN /\ split_due' = Add(split_due, FixedSplit(expense))
                /\ UNCHANGED solo_due
           ELSE /\ solo_due' = Add(solo_due, expense.amount)
                /\ UNCHANGED split_due
    /\ i' = i + 1
    /\ UNCHANGED <<inputs, pc, err, due_mo, prev_mo, split_in, split_out,
                   solo_in, solo_out, est_out, net_due, net_in_out, out,
                   call, ret>>

\* the loop of line 129 is exhausted
FixedEnd ==
    /\ pc = "fixed" /\ err = "none" /\ i > Len(fixed_expenses)
    /\ pc' = "variable" /\ i' = 1
    /\ UNCHANGED <<inputs, err, locals, out, call, ret>>

\* lines 135-140, one iteration; [][-1] raises IndexError
VariableStep ==
    /\ pc = "variable" /\ err = "none" /\ i <= Len(variable_expenses)
    /\ LET expense == variable_expenses[i]
           amounts == MapAmount(PrevMonthTxns(expense.txns, prev_mo))
       IN  IF Len(amounts) = 0
           THEN /\ err' = "IndexError"
                /\ UNCHANGED <<pc, i, split_due, solo_due>>
           ELSE /\ IF expense.split
                   THEN /\ split_due' = Add(split_due, TrueDiv(VariableAmount(amounts), 2))
                        /\ UNCHANGED solo_due
                   ELSE /\ solo_due' = Add(solo_due, VariableAmount(amounts))
                        /\ UNCHANGED split_due
                /\ i' = i + 1
                /\ UNCHANGED <<pc, err>>
    /\ UNCHANGED <<inputs, due_mo, prev_mo, split_in, split_out, solo_in,
                   solo_out, est_out, net_due, net_in_out, out, call, ret>>

\* the loop of line 135 is exhausted; lines 142-145
VariableEnd ==
    /\ pc = "variable" /\ err = "none" /\ i > Len(variable_expenses)
    /\ split_in' = Flow0.split_in /\ split_out' = Flow0.split_out
    /\ solo_in' = Flow0.solo_in /\ solo_out' = Flow0.solo_out
    /\ pc' = "accounts" /\ i' = 1
    /\ UNCHANGED <<inputs, err, due_mo, prev_mo, split_due, solo_due,
                   est_out, net_due, net_in_out, out, call, ret>>

\* lines 147-159, one iteration
AccountStep ==
    /\ pc = "accounts" /\ err = "none" /\ i <= Len(accounts)
    /\ LET f == FlowStep([split_in |-> split_in, split_out |-> split_out,
                          solo_in |-> solo_in, solo_out |-> solo_out,
                          err |-> "none"], accounts[i], prev_mo)
       IN  /\ split_in' = f.split_in /\ split_out' = f.split_out
           /\ solo_in' = f.solo_in /\ solo_out' = f.solo_out
           /\ IF f.err = "none"
              THEN i' = i + 1 /\ UNCHANGED <<pc, err>>
              ELSE err' = f.err /\ UNCHANGED <<pc, i>>
    /\ UNCHANGED <<inputs, due_mo, prev_mo, split_due, solo_due, est_out,
                   net_due, net_in_out, out, call, ret>>

\* the loop of line 147 is exhausted
AccountsEnd ==
    /\ pc = "accounts" /\ err = "none" /\ i > Len(accounts)
    /\ pc' = "estimate"
    /\ UNCHANGED <<inputs, err, i, locals, out, call, ret>>

\* lines 161-164
Estimate ==
    /\ pc = "estimate" /\ err = "none"
    /\ est_out' = EstOut(accounts, due_mo)
    /\ pc' = "totals"
    /\ UNCHANGED <<inputs, err, i, due_mo, prev_mo, split_due, solo_due,
                   split_in, split_out, solo_in, solo_out, net_due,
                   net_in_out, out, call, ret>>

\* lines 166-167
Totals ==
    /\ pc = "totals" /\ err = "none"
    /\ LET nd == Add(Add(split_due, solo_due), est_out)
           nio == NetInOut([split_in |-> split_in, split_out |-> split_out,
                            solo_in |-> solo_in, solo_out |-> solo_out])
       IN  IF IsErr(nd)
           THEN /\ err' = "TypeError"
                /\ UNCHANGED <<pc, net_due, net_in_out>>
           ELSE IF IsErr(nio)
           THEN /\ err' = "TypeError"
                /\ net_due' = nd /\ UNCHANGED <<pc, net_in_out>>
           ELSE /\ pc' = "print_due" /\ UNCHANGED err
                /\ net_due' = nd /\ net_in_out' = nio
    /\ UNCHANGED <<inputs, i, due_mo, prev_mo, split_due, solo_due,
                   split_in, split_out, solo_in, solo_out, est_out, out,
                   call, ret>>

\* lines 169-176
PrintDue ==
    /\ pc = "print_due" /\ err = "none"
    /\ out' = out \o <<Heading("Due", due_mo),
                       Figure("Personal", solo_due),
                       Figure("Joint", split_due),
                       Figure("Estimated", est_out),
                       Figure("Due total", net_due)>>
    /\ pc' = "print_flow"
    /\ UNCHANGED <<inputs, err, i, locals, call, ret>>

\* lines 177-184
PrintFlow ==
    /\ pc = "print_flow" /\ err = "none"
    /\ out' = out \o <<Heading("Cash flow", prev_mo),
                       Figure("Personal (+)", solo_in),
                       Figure("Joint (+)", split_in),
                       Figure("Personal (-)", solo_out),
                       Figure("Joint (-)", split_out),
                       Figure("Flow total", net_in_out)>>
    /\ pc' = "done"
    /\ UNCHANGED <<inputs, err, i, locals, call, ret>>

Next ==
    \/ ParseDue
    \/ FixedStep
    \/ FixedEnd
    \/ VariableStep
    \/ VariableEnd
    \/ AccountStep
    \/ AccountsEnd
    \/ Estimate
    \/ Totals
    \/ PrintDue
    \/ PrintFlow

Spec == Init /\ [][Next]_vars

-----------------------------------------------------------------------------
(* Direct calls of the temporal utilities.                                 *)

CallDates ==
    UNION {{Date(y, m, 1), Date(y, m, 15), Date(y, m, DaysInMonth(y, m))} :
             y \in {2023, 2024}, m \in 1..12}

DatesInit ==
    /\ \E d \in CallDates, e \in CallDates, a \in 0..MaxMonths, b \in 0..MaxMonths :
         \/ b = 0 /\ e = d /\ call = [op |-> "minus_months", d |-> d, n |-> a]
         \/ e = d /\ call = [op |-> "twice", d |-> d, a |-> a, b |-> b]
         \/ b = 0 /\ call = [op |-> "in_past_months", start |-> d, n |-> a, d |-> e]
    /\ ret = NoResult
    /\ argv = <<>>
    /\ fixed_expenses = <<>> /\ variable_expenses = <<>> /\ accounts = <<>>
    /\ pc = "idle" /\ err = "none" /\ i = 0
    /\ due_mo = Unset /\ prev_mo = Unset
    /\ split_due = Unset /\ solo_due = Unset
    /\ split_in = Unset /\ split_out = Unset
    /\ solo_in = Unset /\ solo_out = Unset
    /\ est_out = Unset /\ net_due = Unset /\ net_in_out = Unset
    /\ out = <<>>

\* minus_months(d, n)
CallMinusMonths ==
    /\ call.op = "minus_months" /\ ~ret.done
    /\ ret' = [done |-> TRUE, value |-> minus_months(call.d, call.n)]
    /\ UNCHANGED <<inputs, pc, err, i, locals, out, call>>

\* minus_months(minus_months(d, a), b) beside minus_months(d, a + b)
CallTwice ==
    /\ call.op = "twice" /\ ~ret.done
    /\ ret' = [done |-> TRUE,
               value |-> minus_months(minus_months(call.d, call.a), call.b),
               once |-> minus_months(call.d, call.a + call.b)]
    /\ UNCHANGED <<inputs, pc, err, i, locals, out, call>>

\* in_past_months(start, n, d)
CallInPastMonths ==
    /\ call.op = "in_past_months" /\ ~ret.done
    /\ ret' = [done |-> TRUE,
               value |-> in_past_months(call.start, call.n, call.d)]
    /\ UNCHANGED <<inputs, pc, err, i, locals, out, call>>

DatesNext ==
    \/ CallMinusMonths
    \/ CallTwice
    \/ CallInPastMonths

DatesSpec == DatesInit /\ [][DatesNext]_vars

-----------------------------------------------------------------------------
(* Properties.  The calendar is stated here by counting months, not by     *)
(* stepping over days as the code does.                                    *)

\* months since year 0 of the month of date d
MonthIndex(d) == d.year * 12 + (d.month - 1)

\* how many months the month of e lies before the month of d
MonthsBefore(d, e) == MonthIndex(d) - MonthIndex(e)

IsDate(d) ==
    /\ d.month \in 1..12
    /\ d.day \in 1..DaysInMonth(d.year, d.month)

MinusMonthsReturned == call.op = "minus_months" /\ ret.done

\* C5, as stated: for every date d and n >= 1, monthsBefore(d, n) is the
\* first day (day-of-month 1) of the month n months before d's month.
C5_FirstDay ==
    (MinusMonthsReturned /\ call.n >= 1) =>
        /\ ret.value.day = 1
        /\ MonthsBefore(call.d, ret.value) = call.n

\* C5, amended: for every date d and n >= 1, minus_months(d, n) is the LAST
\* day of the month n months before d's month, across year boundaries too.
C5_LastDay ==
    (MinusMonthsReturned /\ call.n >= 1) =>
        /\ IsDate(ret.value)
        /\ ret.value.day = DaysInMonth(ret.value.year, ret.value.month)
        /\ MonthsBefore(call.d, ret.value) = call.n

\* one month back from a mid-January date: 31 December of the year before
C5_Witness ==
    /\ MinusMonthsReturned
    /\ call.n = 1 /\ call.d.month = 1 /\ call.d.day = 15
    /\ ret.value = Date(call.d.year - 1, 12, 31)

\* C9: minus_months(minus_months(d, a), b) = minus_months(d, a + b) for all
\* a, b >= 0, and minus_months(d, 0) = d.
C9_Additive ==
    /\ (call.op = "twice" /\ ret.done) => ret.value = ret.once
    /\ (MinusMonthsReturned /\ call.n = 0) => ret.value = call.d

\* one month back twice from a mid-month date, landing two months back
C9_Witness ==
    /\ call.op = "twice" /\ ret.done
    /\ call.a = 1 /\ call.b = 1 /\ call.d.day = 15
    /\ MonthsBefore(call.d, ret.value) = 2

\* C6: in_past_months(start, n, d) is true exactly when d's month is one of
\* the n months strictly before start's month: false in start's own month,
\* in any later month, and n+1 or more months back.
C6_Window ==
    (call.op = "in_past_months" /\ ret.done) =>
        (ret.value <=> MonthsBefore(call.start, call.d) \in 1..call.n)

\* a window that reaches back over a year boundary to its last month
C6_Witness ==
    /\ call.op = "in_past_months" /\ ret.done
    /\ ret.value
    /\ call.d.year < call.start.year
    /\ MonthsBefore(call.start, call.d) = call.n

RECURSIVE SumInts(_)
SumInts(s) == IF s = <<>> THEN 0 ELSE Head(s) + SumInts(Tail(s))

\* the previous month is the month one before the due-month, and so on
PostedBack(txn) == MonthsBefore(due_mo, txn.posted)

AfterFixed == {"variable", "accounts", "estimate", "totals", "print_due", "print_flow", "done"}

AfterVariable == {"accounts", "estimate", "totals", "print_due", "print_flow", "done"}

AfterAccounts == {"estimate", "totals", "print_due", "print_flow", "done"}

AfterEstimate == {"totals", "print_due", "print_flow", "done"}

\* twice the split, and once the solo, amounts of the first n fixed expenses
FixedSplitTwice(n) ==
    SumInts([j \in 1..n |-> IF fixed_expenses[j].split
                            THEN fixed_expenses[j].amount.v ELSE 0])

FixedSolo(n) ==
    SumInts([j \in 1..n |-> IF fixed_expenses[j].split
                            THEN 0 ELSE fixed_expenses[j].amount.v])

FixedDone == IF pc = "fixed" THEN i - 1 ELSE Len(fixed_expenses)

\* C7: each fixed expense adds amount/2 to splitDue and nothing to soloDue
\* when split, its full amount to soloDue and nothing to splitDue when not,
\* whatever the due-month; after the fixed expenses alone splitDue is half
\* the sum of the split amounts and soloDue the sum of the others.
C7_FixedBuckets ==
    (pc = "fixed" \/ (pc = "variable" /\ i = 1 /\ err = "none")) =>
        /\ 2 * split_due.v = FixedSplitTwice(FixedDone)
        /\ solo_due.v = FixedSolo(FixedDone)

\* a split and a solo fixed expense of 100 each: 50 joint, 100 personal
C7_Witness ==
    /\ pc = "variable" /\ i = 1
    /\ Len(fixed_expenses) = 2
    /\ fixed_expenses[1].split /\ ~fixed_expenses[2].split
    /\ split_due = Decimal(50) /\ solo_due = Decimal(100)

HasPrev(expense) ==
    \E j \in DOMAIN expense.txns : PostedBack(expense.txns[j]) = 1

\* the last row, in input order, posted in the previous month
LastPrev(expense) ==
    LET j == CHOOSE j \in DOMAIN expense.txns :
                 /\ PostedBack(expense.txns[j]) = 1
                 /\ \A l \in DOMAIN expense.txns :
                        l > j => PostedBack(expense.txns[l]) # 1
    IN  expense.txns[j]

\* four times the split, and twice the solo, share of the first n variable expenses
VariableSplitFourfold(n) ==
    SumInts([j \in 1..n |-> IF variable_expenses[j].split
                            THEN LastPrev(variable_expenses[j]).amount.v ELSE 0])

VariableSoloTwice(n) ==
    SumInts([j \in 1..n |-> IF variable_expenses[j].split
                            THEN 0 ELSE LastPrev(variable_expenses[j]).amount.v])

VariableDone == IF pc = "variable" THEN i - 1 ELSE Len(variable_expenses)

\* C1: a variable expense with a row in the previous month adds A/4 to
\* splitDue (soloDue unchanged) when split and A/2 to soloDue (splitDue
\* unchanged) when not, A being the amount of the LAST row posted in the
\* previous month; earlier rows of that month and rows of other months
\* never contribute.
C1_VariableShare ==
    (pc \in AfterFixed /\ (pc = "variable" => i > 1)) =>
        /\ \A j \in 1..VariableDone : HasPrev(variable_expenses[j])
        /\ 4 * split_due.v =
             2 * FixedSplitTwice(Len(fixed_expenses)) + VariableSplitFourfold(VariableDone)
        /\ 2 * solo_due.v =
             2 * FixedSolo(Len(fixed_expenses)) + VariableSoloTwice(VariableDone)

\* a split variable expense with two different rows in the previous month:
\* a quarter of the second one is due
C1_Witness ==
    /\ pc = "variable" /\ i = 2
    /\ variable_expenses[1].split
    /\ Len(variable_expenses[1].txns) = 2
    /\ \A j \in 1..2 : PostedBack(variable_expenses[1].txns[j]) = 1
    /\ variable_expenses[1].txns[1].amount # variable_expenses[1].txns[2].amount
    /\ 4 * split_due.v = variable_expenses[1].txns[2].amount.v

\* C2: if some variable expense has no row in the previous month, main()
\* can stop only in the variable-expense loop, with the exception of line
\* 136 at such an expense (the NoMatchingPeriod failure), and nothing is
\* ever printed.
C2_NoMatchingPeriod ==
    (pc # "parse" /\ \E j \in DOMAIN variable_expenses : ~HasPrev(variable_expenses[j])) =>
        /\ out = <<>>
        /\ pc \in {"fixed", "variable"}
        /\ err \in {"none", "IndexError"}
        /\ err = "IndexError" => (pc = "variable" /\ ~HasPrev(variable_expenses[i]))
        /\ ~ENABLED Next => err = "IndexError"

\* due 03/24, a variable expense with rows but none in February 2024
C2_Witness ==
    /\ pc = "variable" /\ err = "IndexError"
    /\ argv = <<3, 24>>
    /\ variable_expenses[i].txns # <<>>
    /\ ~HasPrev(variable_expenses[i])
    /\ out = <<>>

\* the sum of the amounts of the rows of the split (or the solo) accounts
\* that are posted back months before the due-month and pass the sign test
FlowTotal(split, back, Sign(_)) ==
    SumInts([j \in 1..Len(accounts) |->
        IF accounts[j].split # split THEN 0
        ELSE SumInts([l \in 1..Len(accounts[j].txns) |->
                LET txn == accounts[j].txns[l]
                IN  IF PostedBack(txn) = back /\ Sign(txn.amount.v)
                    THEN txn.amount.v ELSE 0])])

Positive(x) == x > 0

Negative(x) == x < 0

AnySign(x) == TRUE

\* the loop over the accounts is over: exhausted, or left by an exception
AccountsOver ==
    \/ pc = "accounts" /\ (i > Len(accounts) \/ err # "none")
    \/ pc \in AfterAccounts

FlowAsClaimed ==
    /\ solo_in.v = FlowTotal(FALSE, 1, Positive)
    /\ solo_out.v = FlowTotal(FALSE, 1, Negative)
    /\ 2 * split_in.v = FlowTotal(TRUE, 1, Positive)
    /\ 2 * split_out.v = FlowTotal(TRUE, 1, Negative)

\* C3: for every list of accounts the cash-flow loop yields soloIn and
\* soloOut, the sums of the positive and of the negative amounts of the
\* solo accounts' rows of the previous month, and splitIn and splitOut,
\* half of those sums over the split accounts.
C3_CashFlow ==
    AccountsOver => (~(pc = "accounts" /\ err # "none") /\ FlowAsClaimed)

\* what the loop does keep: the sums are as claimed whenever it runs through
FlowWhenExhausted ==
    (AccountsOver /\ ~(pc = "accounts" /\ err # "none")) => FlowAsClaimed

\* six times the forecast, from the rows of the three months before the
\* due-month, a split account's rows at half value
WindowTotalTwice ==
    SumInts([k \in 1..3 |->
        2 * FlowTotal(FALSE, k, AnySign) + FlowTotal(TRUE, k, AnySign)])

\* C4: estimatedOutflow is minus one third of the total of the amounts, of
\* either sign, of the rows posted in the three months before the
\* due-month, a split account's rows at half value; rows of the due-month,
\* of later months and of four or more months before do not count.
C4_Forecast ==
    pc \in AfterEstimate => 3 * 2 * est_out.v = 0 - WindowTotalTwice

\* a split account with one row inside the window and one outside it
C4_Witness ==
    /\ pc \in AfterEstimate
    /\ \E j \in DOMAIN accounts :
         /\ accounts[j].split
         /\ Len(accounts[j].txns) = 2
         /\ PostedBack(accounts[j].txns[1]) \in 2..3
         /\ PostedBack(accounts[j].txns[2]) \notin 1..3
         /\ accounts[j].txns[2].amount.v # 0
         /\ 3 * 2 * est_out.v = 0 - accounts[j].txns[1].amount.v
         /\ est_out.v # 0

\* x rounded up to whole cents: the least whole-cent value not below x
CeilToCent(fig, x) ==
    /\ fig.cents * CentUnits >= x.v
    /\ (fig.cents - 1) * CentUnits < x.v

\* C8: every printed figure is the least whole-cent value that is >= the
\* unrounded sum it reports (whole cents unchanged, any excess up to the
\* next cent, negative amounts toward zero), and the totals are sums of the
\* unrounded values, rounded only when printed.
C8_CeilToCent ==
    /\ pc \in {"print_flow", "done"} =>
         /\ CeilToCent(out[2], solo_due)
         /\ CeilToCent(out[3], split_due)
         /\ CeilToCent(out[4], est_out)
         /\ CeilToCent(out[5], net_due)
         /\ net_due.v = split_due.v + solo_due.v + est_out.v
    /\ pc = "done" =>
         /\ CeilToCent(out[7], solo_in)
         /\ CeilToCent(out[8], split_in)
         /\ CeilToCent(out[9], solo_out)
         /\ CeilToCent(out[10], split_out)
         /\ CeilToCent(out[11], net_in_out)
         /\ net_in_out.v = split_in.v + split_out.v + solo_in.v + solo_out.v

\* a report with -3.5 cents printed as -3, 5 cents as 5 and a forecast
\* that is a fraction of a cent below zero
C8_Witness ==
    /\ pc = "done"
    /\ solo_out = Decimal(0 - 35) /\ out[9].cents = 0 - 3
    /\ solo_in = Decimal(50) /\ out[7].cents = 5
    /\ est_out.v < 0 /\ est_out.v % CentUnits # 0

\* the cash-flow loop and line 167 run for the month back months before the due-month
FlowOf(back) == FlowLoop(Flow0, accounts, minus_months(due_mo, back))

\* C10: estimatedOutflow is minus one third of the sum of the three
\* netCashFlow values the cash-flow aggregator computes when its reference
\* month is each of the three months before the due-month.
C10_ForecastFromFlows ==
    pc \in AfterEstimate =>
        /\ \A k \in 1..3 : FlowOf(k).err = "none" /\ ~IsErr(NetInOut(FlowOf(k)))
        /\ 3 * est_out.v = 0 - SumInts([k \in 1..3 |-> NetInOut(FlowOf(k)).v])

\* what does hold: the same relation whenever the three runs raise nothing
ForecastFromFlowsWhenDefined ==
    (pc \in AfterEstimate
       /\ \A k \in 1..3 : FlowOf(k).err = "none" /\ ~IsErr(NetInOut(FlowOf(k)))) =>
        3 * est_out.v = 0 - SumInts([k \in 1..3 |-> NetInOut(FlowOf(k)).v])

=============================================================================
